---- MODULE Spec2Model ----
(***************************************************************************)
(* Historical sectoral CO2 emissions analysis pipeline.                    *)
(*                                                                         *)
(* Seven specifications over one set of variables:                         *)
(*   Spec          main(): the orchestrator, stage by stage (main.py)      *)
(*   SpecDivide    safe_divide on scalars and on aligned sequences         *)
(*                 (utils.py)                                              *)
(*   SpecLmdi      compute_kaya_lmdi, one loop iteration per step, on      *)
(*                 two-year tables of any values (modeling.py)             *)
(*   SpecLmdiYears compute_kaya_lmdi on tables and periods of many years   *)
(*   SpecProcess   load_owid_data's tail, process_raw_data, run_modeling   *)
(*                 and the export loop on the World rows of a CSV file     *)
(*   SpecTables    the metric functions of process_raw_data on a long      *)
(*                 table and a World table drawn independently             *)
(*   SpecSmooth    smooth_timeseries on a series and a window, and the     *)
(*                 smoothing stage of run_modeling on a long table         *)
(***************************************************************************)
EXTENDS Integers, Sequences, FiniteSets, TLC

VARIABLES
    \* ---- main() ----
    pc,            \* position of main(): the stage about to run
    fileExists,    \* the OWID CSV is on disk
    colsPresent,   \* every required column is in the CSV
    hasWorld,      \* some row has country == "World"
    started,       \* stages entered so far, in order
    completed,     \* stages that returned, in order
    figures,       \* figure files on disk
    tables,        \* table files on disk
    raised,        \* the exception in flight or handled: <<type, stage>> or NoError
    logged,        \* log lines that matter: errors and the completion banner
    exitStatus,    \* process exit status once main() has ended (-1 while running)
    \* ---- safe_divide ----
    numerator,     \* the numerators, an aligned sequence
    denominator,   \* the denominators, same length
    default,       \* the caller's default
    arrayResult,   \* result of the call on the whole sequences (<<>> before it)
    scalarIndex,   \* position whose pair was passed as two scalars (0 before)
    scalarResult,  \* result of that scalar call
    \* ---- compute_kaya_lmdi ----
    world_df,      \* the table passed in: a sequence of rows, in any order
    periodsArg,    \* the periods argument: [given |-> FALSE] stands for None
    lpc,           \* position of the call: "start", "loop" or "returned"
    df,            \* the sorted copy the function works on
    periods,       \* the local list of periods (the defaults when None)
    results,       \* rows appended so far, one per loop iteration
    weights,       \* the weight L of each iteration (a local of the loop body)
    adjustments,   \* the "adjusted to" log lines, as <<requested, resolved>>
    \* ---- process_raw_data, run_modeling's smoothing, export ----
    csv,           \* the World rows of the CSV file, as text cells
    owid_world,    \* the table load_owid_data returns
    tpc,           \* the step about to run
    traised,       \* the exception that ended the run ("none" while running)
    sector_long,   \* output of extract_sector_long
    total_by_year, \* owid_world's co2 indexed by year
    sector_shares, \* output of compute_sector_shares
    sector_yoy,    \* output of compute_yoy_changes
    total_yoy,     \* year and co2.diff() of owid_world
    contribution,  \* output of compute_contribution_to_total_change
    sector_smoothed, \* sector_long with the column emissions_smoothed
    lmdi_decomposition, \* output of compute_kaya_lmdi(owid_world)
    exported,      \* the tables written to disk, by file name
    \* ---- smooth_timeseries ----
    series,        \* the series passed in
    window,        \* the window passed in
    spc,           \* "call", "returned" or "raised"
    smoothed       \* the series returned (<<>> before the return)

pvars == <<pc, fileExists, colsPresent, hasWorld, started, completed,
           figures, tables, raised, logged, exitStatus>>

dvars == <<numerator, denominator, default, arrayResult, scalarIndex,
           scalarResult>>

lvars == <<world_df, periodsArg, lpc, df, periods, results, weights,
           adjustments>>

tvars == <<csv, owid_world, tpc, traised, sector_long, total_by_year,
           sector_shares, sector_yoy, total_yoy, contribution,
           sector_smoothed, lmdi_decomposition, exported>>

svars == <<series, window, spc, smoothed>>

vars == <<pvars, dvars, lvars, tvars, svars>>

(***************************************************************************)
(* Numbers: IEEE-754 doubles as numpy computes with them, abstracted to    *)
(* exact binary-scaled rationals plus NaN and the two infinities. A value  *)
(* is <<kind, n, d, e>>: <<"fin", n, d, e>> is (n/d) * 2^e with n and d    *)
(* odd and coprime and d > 0 (zero is <<"fin", 0, 1, 0>>), <<"inf", s, 1,  *)
(* 0>> is s * infinity, <<"nan", 0, 1, 0>> is NaN. Rounding and the sign   *)
(* of zero are not represented.                                            *)
(***************************************************************************)

AbsInt(i) == IF i < 0 THEN -i ELSE i

SignInt(i) == IF i < 0 THEN -1 ELSE IF i > 0 THEN 1 ELSE 0

RECURSIVE GCD(_, _)
GCD(a, b) == IF b = 0 THEN a ELSE GCD(b, a % b)

\* The number of factors 2 of a positive integer, and what is left of it.
RECURSIVE TwoAdic(_)
TwoAdic(i) == IF i % 2 = 0 THEN 1 + TwoAdic(i \div 2) ELSE 0

OddPart(i) == i \div (2 ^ TwoAdic(i))

\* (n/d) * 2^e in normal form (d # 0).
Float(n, d, e) ==
    IF n = 0 THEN <<"fin", 0, 1, 0>>
    ELSE LET g == GCD(AbsInt(n), AbsInt(d))
             num == AbsInt(n) \div g
             den == AbsInt(d) \div g
         IN  <<"fin", SignInt(d) * SignInt(n) * OddPart(num), OddPart(den),
               e + TwoAdic(num) - TwoAdic(den)>>

\* n/d (d # 0).
Rat(n, d) == Float(n, d, 0)

NaN == <<"nan", 0, 1, 0>>
PInf == <<"inf", 1, 1, 0>>
NInf == <<"inf", -1, 1, 0>>
Inf(sign) == <<"inf", sign, 1, 0>>
Zero == Rat(0, 1)
One == Rat(1, 1)

IsNaN(x) == x[1] = "nan"
IsInf(x) == x[1] = "inf"
IsFinite(x) == x[1] = "fin"
\* -1, 0 or 1 for a finite or infinite value.
Sign(x) == SignInt(x[2])

\* The product of two finite values; common factors are cancelled crosswise
\* before anything is multiplied.
MulFinite(x, y) ==
    LET g1 == GCD(AbsInt(x[2]), y[3])
        g2 == GCD(AbsInt(y[2]), x[3])
    IN  Float((x[2] \div g1) * (y[2] \div g2),
              (x[3] \div g2) * (y[3] \div g1), x[4] + y[4])

Mul(x, y) ==
    IF IsNaN(x) \/ IsNaN(y) THEN NaN
    ELSE IF IsInf(x) \/ IsInf(y) THEN
        IF Sign(x) * Sign(y) = 0 THEN NaN ELSE Inf(Sign(x) * Sign(y))
    ELSE MulFinite(x, y)

\* x / y of numpy float64: no exception; x/0 is an infinity, 0/0 is NaN.
Div(x, y) ==
    IF IsNaN(x) \/ IsNaN(y) THEN NaN
    ELSE IF IsInf(x) THEN
        IF IsInf(y) THEN NaN ELSE Inf(Sign(x) * (IF Sign(y) < 0 THEN -1 ELSE 1))
    ELSE IF IsInf(y) THEN Zero
    ELSE IF y[2] = 0 THEN
        IF x[2] = 0 THEN NaN ELSE Inf(Sign(x))
    ELSE MulFinite(x, <<"fin", SignInt(y[2]) * y[3], AbsInt(y[2]), -y[4]>>)

Neg(x) == IF IsNaN(x) THEN NaN ELSE <<x[1], -x[2], x[3], x[4]>>

\* The sum of two finite values, over their common denominator and at the
\* smaller of the two exponents.
AddFinite(x, y) ==
    IF x[2] = 0 THEN y
    ELSE IF y[2] = 0 THEN x
    ELSE LET e == IF x[4] < y[4] THEN x[4] ELSE y[4]
             g == GCD(x[3], y[3])
         IN  Float(x[2] * (2 ^ (x[4] - e)) * (y[3] \div g)
                       + y[2] * (2 ^ (y[4] - e)) * (x[3] \div g),
                   (x[3] \div g) * y[3], e)

Add(x, y) ==
    IF IsNaN(x) \/ IsNaN(y) THEN NaN
    ELSE IF IsInf(x) THEN
        IF IsInf(y) /\ Sign(y) # Sign(x) THEN NaN ELSE x
    ELSE IF IsInf(y) THEN y
    ELSE AddFinite(x, y)

Sub(x, y) == Add(x, Neg(y))

Abs(x) == IF IsNaN(x) THEN NaN ELSE <<x[1], AbsInt(x[2]), x[3], x[4]>>

\* a/b < c/d for a, c >= 0 and b, d > 0, by continued fractions: the integer
\* parts decide, or else the reciprocals of the fractional parts do.
RECURSIVE LtPos(_, _, _, _)
LtPos(a, b, c, d) ==
    IF a \div b # c \div d THEN a \div b < c \div d
    ELSE IF c % d = 0 THEN FALSE
    ELSE IF a % b = 0 THEN TRUE
    ELSE LtPos(d, c % d, b, a % b)

\* (a/b) * 2^k < c/d for a, c > 0, b, d > 0 and k >= 0: the power of two is
\* moved, one factor at a time, into a or into d.
RECURSIVE LtScaled(_, _, _, _, _)
LtScaled(a, b, k, c, d) ==
    IF k = 0 THEN LtPos(a, b, c, d)
    ELSE IF a \div b > c \div d THEN FALSE
    ELSE IF a <= d THEN LtScaled(2 * a, b, k - 1, c, d)
    ELSE LtScaled(a, b, k - 1, c, 2 * d)

\* x < y for x, y > 0 finite.
LtPosFinite(x, y) ==
    IF x[4] >= y[4] THEN LtScaled(x[2], x[3], x[4] - y[4], y[2], y[3])
    ELSE ~LtScaled(y[2], y[3], y[4] - x[4], x[2], x[3]) /\ x # y

\* x < y; every comparison with NaN is false.
Lt(x, y) ==
    IF IsNaN(x) \/ IsNaN(y) THEN FALSE
    ELSE IF IsInf(x) THEN Sign(x) < 0 /\ ~(IsInf(y) /\ Sign(y) < 0)
    ELSE IF IsInf(y) THEN Sign(y) > 0
    ELSE IF Sign(x) # Sign(y) THEN Sign(x) < Sign(y)
    ELSE IF Sign(x) = 0 THEN FALSE
    ELSE IF Sign(x) > 0 THEN LtPosFinite(x, y)
    ELSE LtPosFinite(Neg(y), Neg(x))

Gt(x, y) == Lt(y, x)

\* ln 2, to one decimal place.
Ln2 == Rat(7, 10)

\* np.log of a float64: log(0) is -inf, the log of a negative number is NaN,
\* no exception. The positive finite values whose logarithm the model takes
\* are powers of two, 2^k, whose logarithm is k * ln 2.
NpLog(x) ==
    IF IsNaN(x) THEN NaN
    ELSE IF IsInf(x) THEN (IF Sign(x) > 0 THEN PInf ELSE NaN)
    ELSE IF x[2] < 0 THEN NaN
    ELSE IF x[2] = 0 THEN NInf
    ELSE IF x[2] = 1 /\ x[3] = 1 THEN Mul(Rat(x[4], 1), Ln2)
    ELSE CHOOSE v \in {} : TRUE

(***************************************************************************)
(* safe_divide (utils.py)                                                  *)
(***************************************************************************)

\* np.divide under errstate(divide="ignore", invalid="ignore"), one element.
NpDivide(n, d) == Div(n, d)

\* np.where(cond, a, b), one element.
NpWhere(cond, a, b) == IF cond THEN a ELSE b

\* Mutant: only the zero denominator is replaced, a NaN quotient is kept.
SafeDivideScalarZeroOnly(n, d, dflt) ==
    IF IsFinite(d) /\ d[2] = 0 THEN dflt ELSE NpDivide(n, d)

\* safe_divide on two scalars: the result is no ndarray or Series, so the
\* elif branch decides.
SafeDivideScalar(n, d, dflt) ==
    LET result == NpDivide(n, d)
    IN  IF ~IsFinite(result) THEN dflt ELSE result

\* Mutant: the quotients of two aligned sequences returned as np.divide
\* gives them.
DivideArrayUnguarded(ns, ds, dflt) ==
    [i \in DOMAIN ns |-> NpDivide(ns[i], ds[i])]

\* safe_divide on two aligned sequences: np.divide elementwise, then
\* np.where(np.isfinite(result), result, default).
SafeDivideArray(ns, ds, dflt) ==
    LET result == [i \in DOMAIN ns |-> NpDivide(ns[i], ds[i])]
    IN  [i \in DOMAIN ns |-> NpWhere(IsFinite(result[i]), result[i], dflt)]

\* Largest integer among the inputs drawn, and the longest sequence.
MaxDivInt == 2
MaxDivLen == 2

DivInputs == {NaN, PInf, NInf} \cup {Rat(n, 1) : n \in -1..MaxDivInt}

\* Defaults a caller passes: the missing value (the default's default) or a
\* number of its own.
DivDefaults == {NaN, Rat(-7, 1)}

SeqsUpTo(S, maxlen) == UNION {[1..k -> S] : k \in 1..maxlen}

InitDivide ==
    /\ numerator \in SeqsUpTo(DivInputs, MaxDivLen)
    /\ denominator \in [DOMAIN numerator -> DivInputs]
    /\ default \in DivDefaults
    /\ arrayResult = <<>>
    /\ scalarIndex = 0
    /\ scalarResult = NaN

\* safe_divide(numerator, denominator, default) on the sequences.
CallSafeDivideArray ==
    /\ arrayResult = <<>>
    /\ arrayResult' = SafeDivideArray(numerator, denominator, default)
    /\ UNCHANGED <<numerator, denominator, default, scalarIndex, scalarResult>>
    /\ UNCHANGED <<pvars, lvars, tvars, svars>>

\* safe_divide(numerator[i], denominator[i], default) on two scalars.
CallSafeDivideScalar ==
    /\ scalarIndex = 0
    /\ \E i \in DOMAIN numerator :
          /\ scalarIndex' = i
          /\ scalarResult' = SafeDivideScalar(numerator[i], denominator[i], default)
    /\ UNCHANGED <<numerator, denominator, default, arrayResult>>
    /\ UNCHANGED <<pvars, lvars, tvars, svars>>

NextDivide ==
    \/ CallSafeDivideArray
    \/ CallSafeDivideScalar

(***************************************************************************)
(* Properties of safe_divide                                               *)
(***************************************************************************)

\* What the claim asks of one result r for numerator n, denominator d.
DivideContract(n, d, r) ==
    /\ d = Zero => r = default
    /\ (IsFinite(n) /\ IsFinite(d) /\ d # Zero) => IsFinite(r) /\ Mul(r, d) = n
    /\ (IsFinite(n) /\ IsInf(d)) => r = Zero

\* C5: safe division. A zero denominator yields the default whatever the
\* numerator (0 included); a non-zero denominator with a finite quotient q
\* yields q, the number with q * d = n; and the call on aligned sequences
\* gives at every position what the call on that position's two scalars gives.
SafeDivision ==
    /\ scalarIndex # 0 =>
          DivideContract(numerator[scalarIndex], denominator[scalarIndex],
                         scalarResult)
    /\ arrayResult # <<>> =>
          /\ DOMAIN arrayResult = DOMAIN numerator
          /\ \A i \in DOMAIN numerator :
                DivideContract(numerator[i], denominator[i], arrayResult[i])
    /\ (scalarIndex # 0 /\ arrayResult # <<>>) =>
          arrayResult[scalarIndex] = scalarResult

\* Witness of C5: both calls made on sequences holding a zero denominator
\* under a non-zero numerator (the default comes back) and a proper quotient.
DividedByZeroAndByTwo ==
    /\ scalarIndex = 1 /\ arrayResult # <<>> /\ Len(numerator) = 2
    /\ numerator[1] = One /\ denominator[1] = Zero
    /\ default = Rat(-7, 1) /\ scalarResult = default
    /\ numerator[2] = One /\ denominator[2] = Rat(2, 1)
    /\ arrayResult[2] = Rat(1, 2)

(***************************************************************************)
(* compute_kaya_lmdi (modeling.py)                                         *)
(***************************************************************************)

\* The threshold of the two degenerate tests, 1e-9.
Epsilon == Rat(1, 1000000000)

\* Mutant: the degenerate case returning the start value even when it is 0.
LogMeanDivisiaIndexNoZeroGuard(value_start, value_end, co2_start, co2_end) ==
    IF Lt(Abs(Sub(co2_end, co2_start)), Epsilon) THEN co2_start
    ELSE LET ln_ratio == Sub(NpLog(co2_end), NpLog(co2_start))
         IN  IF Lt(Abs(ln_ratio), Epsilon) THEN co2_start
             ELSE Div(Sub(co2_end, co2_start), ln_ratio)

\* Mutant: the weight without its two degenerate tests.
LogMeanDivisiaIndexUnguarded(value_start, value_end, co2_start, co2_end) ==
    Div(Sub(co2_end, co2_start), Sub(NpLog(co2_end), NpLog(co2_start)))

\* _log_mean_divisia_index: the weight L of a period.
LogMeanDivisiaIndex(value_start, value_end, co2_start, co2_end) ==
    IF Lt(Abs(Sub(co2_end, co2_start)), Epsilon)
    THEN (IF co2_start # Zero THEN co2_start ELSE One)
    ELSE LET ln_ratio == Sub(NpLog(co2_end), NpLog(co2_start))
         IN  IF Lt(Abs(ln_ratio), Epsilon)
             THEN (IF co2_start # Zero THEN co2_start ELSE One)
             ELSE Div(Sub(co2_end, co2_start), ln_ratio)

\* The years of a table, in row order.
YearsOf(rows) == {rows[i].year : i \in DOMAIN rows}

\* sort_values("year").reset_index(drop=True) on rows with unique years.
RECURSIVE SortByYear(_)
SortByYear(rows) ==
    IF rows = <<>> THEN <<>>
    ELSE LET m == CHOOSE i \in DOMAIN rows :
                     \A j \in DOMAIN rows : rows[i].year <= rows[j].year
             rest == [k \in 1..(Len(rows) - 1) |->
                         IF k < m THEN rows[k] ELSE rows[k + 1]]
         IN  <<rows[m]>> \o SortByYear(rest)

MaxYear(rows) == CHOOSE y \in YearsOf(rows) : \A z \in YearsOf(rows) : z <= y

\* The periods used when the argument is None.
DefaultPeriods(rows) ==
    << <<1990, MaxYear(rows)>>, <<2000, 2019>>, <<2019, MaxYear(rows)>> >>

\* Mutant: the lookup taking the last row whose year is not after the
\* request (the first row when there is none) instead of the closest.
IdxMinFloor(rows, year) ==
    IF \E i \in DOMAIN rows : rows[i].year <= year
    THEN CHOOSE i \in DOMAIN rows :
            /\ rows[i].year <= year
            /\ \A j \in DOMAIN rows : rows[j].year <= year => j <= i
    ELSE 1

\* (df["year"] - year).abs().idxmin(): the first row at the least distance.
IdxMin(rows, year) ==
    CHOOSE i \in DOMAIN rows :
        \A j \in DOMAIN rows :
            /\ AbsInt(rows[i].year - year) <= AbsInt(rows[j].year - year)
            /\ AbsInt(rows[i].year - year) = AbsInt(rows[j].year - year) => i <= j

\* One effect: L * ln(x_end / x_start) if x_start > 0, else NaN.
Effect(L, x_start, x_end) ==
    IF Gt(x_start, Zero) THEN Mul(L, NpLog(Div(x_end, x_start))) ELSE NaN

\* Mutant: a period with any undefined start factor reported with no effect
\* at all.
PeriodRowAllOrNone(start_data, end_data) ==
    LET p_start == start_data.population
        a_start == SafeDivideScalar(start_data.gdp, start_data.population, NaN)
        i_start == SafeDivideScalar(start_data.co2, start_data.gdp, NaN)
        a_end == SafeDivideScalar(end_data.gdp, end_data.population, NaN)
        i_end == SafeDivideScalar(end_data.co2, end_data.gdp, NaN)
        L == LogMeanDivisiaIndex(p_start, end_data.population,
                                 start_data.co2, end_data.co2)
        ok == Gt(p_start, Zero) /\ Gt(a_start, Zero) /\ Gt(i_start, Zero)
    IN  [ period |-> <<start_data.year, end_data.year>>,
          effect_population |->
              IF ok THEN Effect(L, p_start, end_data.population) ELSE NaN,
          effect_affluence |-> IF ok THEN Effect(L, a_start, a_end) ELSE NaN,
          effect_intensity |-> IF ok THEN Effect(L, i_start, i_end) ELSE NaN,
          delta_co2 |-> Sub(end_data.co2, start_data.co2) ]

\* The body of the loop after the two rows are found: the Kaya factors, the
\* weight, the three effects and the row appended to results.
PeriodRow(start_data, end_data) ==
    LET p_start == start_data.population
        p_end == end_data.population
        a_start == SafeDivideScalar(start_data.gdp, start_data.population, NaN)
        a_end == SafeDivideScalar(end_data.gdp, end_data.population, NaN)
        i_start == SafeDivideScalar(start_data.co2, start_data.gdp, NaN)
        i_end == SafeDivideScalar(end_data.co2, end_data.gdp, NaN)
        co2_start == start_data.co2
        co2_end == end_data.co2
        L == LogMeanDivisiaIndex(p_start, p_end, co2_start, co2_end)
    IN  [ period |-> <<start_data.year, end_data.year>>,
          effect_population |-> Effect(L, p_start, p_end),
          effect_affluence |-> Effect(L, a_start, a_end),
          effect_intensity |-> Effect(L, i_start, i_end),
          delta_co2 |-> Sub(co2_end, co2_start) ]

\* Mutant: the entry of the function without the sort, the rows kept in the
\* order of the table passed in.
LmdiStartUnsorted ==
    /\ lpc = "start"
    /\ df' = world_df
    /\ periods' = IF periodsArg.given THEN periodsArg.list
                  ELSE DefaultPeriods(world_df)
    /\ lpc' = "loop"
    /\ UNCHANGED <<world_df, periodsArg, results, weights, adjustments>>
    /\ UNCHANGED <<pvars, dvars, tvars, svars>>

\* Lines 163-173: the sorted copy and the default periods.
LmdiStart ==
    /\ lpc = "start"
    /\ df' = SortByYear(world_df)
    /\ periods' = IF periodsArg.given THEN periodsArg.list
                  ELSE DefaultPeriods(SortByYear(world_df))
    /\ lpc' = "loop"
    /\ UNCHANGED <<world_df, periodsArg, results, weights, adjustments>>
    /\ UNCHANGED <<pvars, dvars, tvars, svars>>

\* Mutant: the loop body labelling the row with the requested years.
LmdiIterationRequestedLabel ==
    /\ lpc = "loop"
    /\ Len(results) < Len(periods)
    /\ LET start_year == periods[Len(results) + 1][1]
           end_year == periods[Len(results) + 1][2]
           start_data == df[IdxMin(df, start_year)]
           end_data == df[IdxMin(df, end_year)]
       IN  /\ adjustments' =
                 IF start_data.year # start_year \/ end_data.year # end_year
                 THEN Append(adjustments, << <<start_year, end_year>>,
                                             <<start_data.year, end_data.year>> >>)
                 ELSE adjustments
           /\ results' = Append(results,
                 [PeriodRow(start_data, end_data)
                     EXCEPT !.period = <<start_year, end_year>>])
           /\ weights' = Append(weights,
                 LogMeanDivisiaIndex(start_data.population, end_data.population,
                                     start_data.co2, end_data.co2))
    /\ UNCHANGED <<world_df, periodsArg, lpc, df, periods>>
    /\ UNCHANGED <<pvars, dvars, tvars, svars>>

\* One iteration of the loop over periods (lines 177-219).
LmdiIteration ==
    /\ lpc = "loop"
    /\ Len(results) < Len(periods)
    /\ LET start_year == periods[Len(results) + 1][1]
           end_year == periods[Len(results) + 1][2]
           start_data == df[IdxMin(df, start_year)]
           end_data == df[IdxMin(df, end_year)]
       IN  /\ adjustments' =
                 IF start_data.year # start_year \/ end_data.year # end_year
                 THEN Append(adjustments, << <<start_year, end_year>>,
                                             <<start_data.year, end_data.year>> >>)
                 ELSE adjustments
           /\ results' = Append(results, PeriodRow(start_data, end_data))
           /\ weights' = Append(weights,
                 LogMeanDivisiaIndex(start_data.population, end_data.population,
                                     start_data.co2, end_data.co2))
    /\ UNCHANGED <<world_df, periodsArg, lpc, df, periods>>
    /\ UNCHANGED <<pvars, dvars, tvars, svars>>

\* The loop is over: the table is built from results and returned.
LmdiReturn ==
    /\ lpc = "loop"
    /\ Len(results) = Len(periods)
    /\ lpc' = "returned"
    /\ UNCHANGED <<world_df, periodsArg, df, periods, results, weights,
                   adjustments>>
    /\ UNCHANGED <<pvars, dvars, tvars, svars>>

NextLmdi ==
    \/ LmdiStart
    \/ LmdiIteration
    \/ LmdiReturn

\* Largest exponent k of the magnitudes 2^k drawn for co2, population and gdp.
MaxExp == 1

\* A population or GDP value: missing, zero, or a positive magnitude.
KayaValues == {NaN, Zero} \cup {Rat(2 ^ k, 1) : k \in 0..MaxExp}

\* The binary exponents of the units CO2 totals are drawn in: 1, and 2^-30,
\* the largest power of two under the threshold 1e-9.
Co2Scales == {0, -30}

\* A CO2 total in the unit 2^scale: missing, zero, or a positive magnitude.
Co2Values(scale) ==
    {NaN, Zero} \cup {Float(1, 1, k + scale) : k \in 0..MaxExp}

KayaRow(y, scale) ==
    [year : {y}, co2 : Co2Values(scale), population : KayaValues,
     gdp : KayaValues]

\* Inputs of the value-centred specification: a two-year table, any values
\* with both CO2 totals in the same unit, and the periods either left to the
\* defaults or one period over its years.
InitLmdiValues ==
    /\ world_df \in UNION {{<<r1, r2>> : r1 \in KayaRow(2000, scale),
                                         r2 \in KayaRow(2019, scale)} :
                               scale \in Co2Scales}
    /\ periodsArg \in
          {[given |-> FALSE, list |-> <<>>]} \cup
          {[given |-> TRUE, list |-> << <<y1, y2>> >>] :
              y1 \in {2000, 2019}, y2 \in {2000, 2019}}
    /\ lpc = "start"
    /\ df = <<>>
    /\ periods = <<>>
    /\ results = <<>>
    /\ weights = <<>>
    /\ adjustments = <<>>

\* Inputs of the year-centred specification: up to MaxRows rows over a few
\* years, in any row order, and None or up to MaxPeriods requested periods.
MaxRows == 3
MaxPeriods == 2

DatasetYears == <<1850, 1990, 1992, 2019, 2022>>
RequestYears == {1750, 1991, 2019}

\* The row of the k-th dataset year: co2 doubles from one year to the next,
\* population and gdp grow more slowly.
YearRow(k) ==
    [ year |-> DatasetYears[k],
      co2 |-> Rat(2 ^ (k - 1), 1),
      population |-> Rat(2 ^ ((k - 1) \div 3), 1),
      gdp |-> Rat(2 ^ ((k - 1) \div 2), 1) ]

\* Sequences of 1..n distinct elements of S.
InjectiveSeqs(S, n) ==
    {q \in UNION {[1..k -> S] : k \in 1..n} :
        \A i, j \in DOMAIN q : q[i] = q[j] => i = j}

InitLmdiYears ==
    /\ world_df \in
          {[i \in DOMAIN q |-> YearRow(q[i])] :
              q \in InjectiveSeqs(DOMAIN DatasetYears, MaxRows)}
    /\ periodsArg \in
          {[given |-> FALSE, list |-> <<>>]} \cup
          {[given |-> TRUE, list |-> l] :
              l \in UNION {[1..k -> RequestYears \X RequestYears] :
                              k \in 0..MaxPeriods}}
    /\ lpc = "start"
    /\ df = <<>>
    /\ periods = <<>>
    /\ results = <<>>
    /\ weights = <<>>
    /\ adjustments = <<>>

(***************************************************************************)
(* Properties of compute_kaya_lmdi                                         *)
(***************************************************************************)

\* The input row of a year (years are unique in the table).
RowOfYear(y) == CHOOSE r \in {world_df[i] : i \in DOMAIN world_df} : r.year = y

\* The rows a result row was computed from, found through its period label.
StartRow(i) == RowOfYear(results[i].period[1])
EndRow(i) == RowOfYear(results[i].period[2])

\* The relative tolerance of the additivity property, 1e-6.
RelativeTolerance == Rat(1, 1000000)

SumOfEffects(row) ==
    Add(Add(row.effect_population, row.effect_affluence), row.effect_intensity)

\* All three effects of a row are numbers: none is the missing value, and
\* none is an infinity either.
AllEffectsDefined(row) ==
    /\ IsFinite(row.effect_population)
    /\ IsFinite(row.effect_affluence)
    /\ IsFinite(row.effect_intensity)

\* C6: LMDI additivity. In every result row whose three effects are all
\* defined, the effects sum to delta_co2 to within 1e-6 of |delta_co2|.
LmdiAdditivity ==
    \A i \in DOMAIN results :
        AllEffectsDefined(results[i]) =>
            ~Lt(Mul(RelativeTolerance, Abs(results[i].delta_co2)),
                Abs(Sub(SumOfEffects(results[i]), results[i].delta_co2)))

Quotient(n, d) ==
    IF IsFinite(n) /\ IsFinite(d) /\ d # Zero
    THEN Div(n, d) ELSE NaN
FactorP(r) == r.population
FactorA(r) == Quotient(r.gdp, r.population)
FactorI(r) == Quotient(r.co2, r.gdp)

\* What the claim asks of one effect: missing when the factor is not positive
\* at the start year, else the weight times the log of the factor's ratio.
EffectIsolated(effect, L, x_start, x_end) ==
    /\ ~Gt(x_start, Zero) => IsNaN(effect)
    /\ Gt(x_start, Zero) => effect = Mul(L, NpLog(Div(x_end, x_start)))

\* C9: undefined effects are isolated. Each effect is the missing value when
\* its own factor is not greater than 0 (or is missing) at the start year and
\* is otherwise computed from its own factor alone; delta_co2 is
\* CO2_end - CO2_start in every row; and every period yields a row.
UndefinedEffectsIsolated ==
    /\ \A i \in DOMAIN results :
          LET s == StartRow(i)
              e == EndRow(i)
          IN  /\ EffectIsolated(results[i].effect_population, weights[i],
                                FactorP(s), FactorP(e))
              /\ EffectIsolated(results[i].effect_affluence, weights[i],
                                FactorA(s), FactorA(e))
              /\ EffectIsolated(results[i].effect_intensity, weights[i],
                                FactorI(s), FactorI(e))
              /\ results[i].delta_co2 = Sub(e.co2, s.co2)
    /\ lpc = "returned" => Len(results) = Len(periods)

\* Witness of C9: GDP is 0 at the start year, so affluence and intensity have
\* no effect, while the population effect and delta_co2 are reported.
OnlyPopulationEffectDefined ==
    \E i \in DOMAIN results :
        /\ StartRow(i).gdp = Zero
        /\ IsNaN(results[i].effect_affluence)
        /\ IsNaN(results[i].effect_intensity)
        /\ results[i].effect_population = One
        /\ results[i].delta_co2 = One

\* The years of the table passed in, and the distance of the closest to y.
InputYears == {world_df[i].year : i \in DOMAIN world_df}
LeastDistance(y) ==
    CHOOSE d \in {AbsInt(z - y) : z \in InputYears} :
        \A z \in InputYears : d <= AbsInt(z - y)

\* The periods the call was asked for: the argument, or the three defaults.
LatestYear == CHOOSE y \in InputYears : \A z \in InputYears : z <= y
RequestedPeriods ==
    IF periodsArg.given THEN periodsArg.list
    ELSE << <<1990, LatestYear>>, <<2000, 2019>>, <<2019, LatestYear>> >>

\* Indices of the iterations whose resolved years differ from the request.
AdjustedIterations ==
    {i \in DOMAIN results : results[i].period # RequestedPeriods[i]}

\* C7: nearest-year resolution. Every boundary resolves to a year of the table
\* at the least absolute distance from the request (hence to the requested
\* year when present and to the nearest endpoint when out of range), the row
\* is computed from the records of the resolved years, an adjustment is
\* logged exactly for the periods with a resolved year other than the
\* requested one, and the call returns a row for every period.
NearestYearResolution ==
    /\ \A i \in DOMAIN results : \A b \in 1..2 :
          /\ results[i].period[b] \in InputYears
          /\ AbsInt(results[i].period[b] - RequestedPeriods[i][b])
                = LeastDistance(RequestedPeriods[i][b])
    /\ \A i \in DOMAIN results :
          results[i].delta_co2 = Sub(EndRow(i).co2, StartRow(i).co2)
    /\ Len(adjustments) = Cardinality(AdjustedIterations)
    /\ \A k \in DOMAIN adjustments :
          \E i \in AdjustedIterations :
              /\ adjustments[k] = <<RequestedPeriods[i], results[i].period>>
              /\ Cardinality({j \in AdjustedIterations : j <= i}) = k
    /\ lpc = "returned" => Len(results) = Len(RequestedPeriods)

\* Witness of C7: (1750, 2019) asked of a table that starts in 1850 and holds
\* 2019: the start resolves to 1850 and the adjustment is logged.
Resolved1750To1850 ==
    /\ lpc = "returned"
    /\ periodsArg.given /\ periodsArg.list = << <<1750, 2019>> >>
    /\ InputYears = {1850, 2019, 2022}
    /\ results[1].period = <<1850, 2019>>
    /\ adjustments = << << <<1750, 2019>>, <<1850, 2019>> >> >>

\* C10: LMDI output shape. The returned table has one row per requested
\* period, in the order requested (the defaults (1990, latest), (2000, 2019),
\* (2019, latest) when none is given), duplicates kept, and each row's label
\* is the pair of resolved years and its values are those of that period.
LmdiOutputShape ==
    /\ Len(results) <= Len(RequestedPeriods)
    /\ lpc = "returned" => Len(results) = Len(RequestedPeriods)
    /\ \A i \in DOMAIN results : \A b \in 1..2 :
          /\ results[i].period[b] \in InputYears
          /\ AbsInt(results[i].period[b] - RequestedPeriods[i][b])
                = LeastDistance(RequestedPeriods[i][b])
    /\ \A i \in DOMAIN results :
          results[i].delta_co2 = Sub(EndRow(i).co2, StartRow(i).co2)

\* Witness of C10: no periods given on a table of 1990, 2019 and 2022: three
\* rows in the order of the defaults, labelled with the resolved years.
DefaultPeriodsReturned ==
    /\ lpc = "returned"
    /\ ~periodsArg.given
    /\ InputYears = {1990, 2019, 2022}
    /\ Len(results) = 3
    /\ results[1].period = <<1990, 2022>>
    /\ results[2].period = <<1990, 2019>>
    /\ results[3].period = <<2019, 2022>>

\* Both boundaries of result row i resolved to the same year of the table.
Collapsed(i) == results[i].period[1] = results[i].period[2]

\* The effects of row i whose factor is greater than 0 at the start year.
PositiveStartEffects(i) ==
    (IF Gt(FactorP(StartRow(i)), Zero)
        THEN {results[i].effect_population} ELSE {})
    \cup (IF Gt(FactorA(StartRow(i)), Zero)
             THEN {results[i].effect_affluence} ELSE {})
    \cup (IF Gt(FactorI(StartRow(i)), Zero)
             THEN {results[i].effect_intensity} ELSE {})

\* C22 as stated: collapsed period. A row whose boundaries resolved to the
\* same year has delta_co2 = 0 and every effect with a positive start
\* factor equal to 0, and every period yields a row.
CollapsedPeriodIsZero ==
    /\ \A i \in DOMAIN results :
          Collapsed(i) =>
              /\ results[i].delta_co2 = Zero
              /\ PositiveStartEffects(i) \subseteq {Zero}
    /\ lpc = "returned" => Len(results) = Len(RequestedPeriods)

\* C22 amended: a row whose boundaries resolved to the same year has
\* delta_co2 = 0 and every effect with a positive start factor equal to 0
\* when the CO2 total of that year is a number; when the total is missing,
\* delta_co2 and those effects are missing; every period yields a row.
CollapsedPeriodZeroOrMissing ==
    /\ \A i \in DOMAIN results :
          Collapsed(i) =>
              /\ IsFinite(StartRow(i).co2) =>
                    /\ results[i].delta_co2 = Zero
                    /\ PositiveStartEffects(i) \subseteq {Zero}
              /\ IsNaN(StartRow(i).co2) =>
                    /\ IsNaN(results[i].delta_co2)
                    /\ PositiveStartEffects(i) \subseteq {NaN}
    /\ lpc = "returned" => Len(results) = Len(RequestedPeriods)

\* Witness of C22: the period (2019, 2019) on a year with a CO2 total of 2,
\* a population of 1 and a GDP of 0: delta_co2 and the population effect
\* are 0, the other two effects are missing, and the row is returned.
CollapsedOn2019 ==
    /\ lpc = "returned"
    /\ \E i \in DOMAIN results :
          /\ results[i].period = <<2019, 2019>>
          /\ StartRow(i).co2 = Rat(2, 1)
          /\ StartRow(i).population = One
          /\ StartRow(i).gdp = Zero
          /\ results[i].delta_co2 = Zero
          /\ results[i].effect_population = Zero
          /\ IsNaN(results[i].effect_affluence)
          /\ IsNaN(results[i].effect_intensity)

\* C24: no infinite effects. No effect of any result row is +infinity or
\* -infinity: each is a finite number or the missing value.
NoInfiniteEffects ==
    \A i \in DOMAIN results :
        /\ ~IsInf(results[i].effect_population)
        /\ ~IsInf(results[i].effect_affluence)
        /\ ~IsInf(results[i].effect_intensity)

\* The years of the table at the least distance from y: one year, or two
\* when y lies half way between them.
NearestYears(y) == {z \in InputYears : AbsInt(z - y) = LeastDistance(y)}

\* C21: nearest-year tie-break. Every boundary of every result row is the
\* earliest of the years of the table at the least distance from the year
\* requested, in whatever order the rows of the table were passed in.
NearestYearTieBreak ==
    \A i \in DOMAIN results : \A b \in 1..2 :
        /\ results[i].period[b] \in NearestYears(RequestedPeriods[i][b])
        /\ \A z \in NearestYears(RequestedPeriods[i][b]) :
              results[i].period[b] <= z

\* Witness of C21: 1991 asked of a table that holds 1992 in a row before
\* 1990 and does not hold 1991: the boundary resolves to 1990.
Resolved1991To1990 ==
    /\ lpc = "returned"
    /\ periodsArg.given /\ Len(periodsArg.list) = 1
    /\ periodsArg.list[1][1] = 1991
    /\ \E j, k \in DOMAIN world_df :
          j < k /\ world_df[j].year = 1992 /\ world_df[k].year = 1990
    /\ NearestYears(1991) = {1990, 1992}
    /\ results[1].period[1] = 1990

(***************************************************************************)
(* main(): the orchestrator                                                *)
(***************************************************************************)

NoError == <<"none", "none">>

\* Exceptions a stage may raise for reasons outside the input's three
\* validated properties (I/O failure, malformed values).
EnvErrors == {"OSError", "TypeError"}

InitMain ==
    /\ pc = "config"
    /\ fileExists \in BOOLEAN
    /\ colsPresent \in BOOLEAN
    /\ hasWorld \in BOOLEAN
    /\ started = <<>>
    /\ completed = <<>>
    /\ figures = {}
    /\ tables = {}
    /\ raised = NoError
    /\ logged = <<>>
    /\ exitStatus = -1

\* A stage that returns: control moves to the next statement of main().
Returns(stage, next) ==
    /\ started' = Append(started, stage)
    /\ completed' = Append(completed, stage)
    /\ pc' = next
    /\ UNCHANGED <<raised, logged, exitStatus>>

\* A stage that raises: control leaves the try body for the except clause.
Raises(stage, type) ==
    /\ started' = Append(started, stage)
    /\ raised' = <<type, stage>>
    /\ pc' = "except"
    /\ UNCHANGED <<completed, logged, exitStatus>>

\* A stage whose only failures come from the environment.
RunStage(stage, next) ==
    \/ Returns(stage, next)
    \/ \E t \in EnvErrors : Raises(stage, t)

GetConfig ==
    /\ pc = "config"
    /\ Returns("config", "dirs")
    /\ UNCHANGED <<fileExists, colsPresent, hasWorld, figures, tables>>

EnsureDirectoriesExist ==
    /\ pc = "dirs"
    /\ RunStage("dirs", "validate_file")
    /\ UNCHANGED <<fileExists, colsPresent, hasWorld, figures, tables>>

ValidateFileExists ==
    /\ pc = "validate_file"
    /\ IF fileExists
         THEN Returns("validate_file", "load")
         ELSE Raises("validate_file", "FileNotFoundError")
    /\ UNCHANGED <<fileExists, colsPresent, hasWorld, figures, tables>>

\* Mutant: load_owid_data without the empty-World check.
LoadOwidDataNoWorldCheck ==
    /\ pc = "load"
    /\ IF ~fileExists THEN Raises("load", "FileNotFoundError")
       ELSE IF ~colsPresent THEN Raises("load", "ValueError")
       ELSE RunStage("load", "taxonomy")
    /\ UNCHANGED <<fileExists, colsPresent, hasWorld, figures, tables>>

LoadOwidData ==
    /\ pc = "load"
    /\ IF ~fileExists THEN Raises("load", "FileNotFoundError")
       ELSE IF ~colsPresent THEN Raises("load", "ValueError")
       ELSE IF ~hasWorld THEN Raises("load", "ValueError")
       ELSE RunStage("load", "taxonomy")
    /\ UNCHANGED <<fileExists, colsPresent, hasWorld, figures, tables>>

ExtractSectorLong ==
    /\ pc = "taxonomy"
    /\ RunStage("taxonomy", "total_by_year")
    /\ UNCHANGED <<fileExists, colsPresent, hasWorld, figures, tables>>

TotalByYear ==
    /\ pc = "total_by_year"
    /\ RunStage("total_by_year", "shares")
    /\ UNCHANGED <<fileExists, colsPresent, hasWorld, figures, tables>>

ComputeSectorShares ==
    /\ pc = "shares"
    /\ RunStage("shares", "sector_yoy")
    /\ UNCHANGED <<fileExists, colsPresent, hasWorld, figures, tables>>

\* Mutant: process_raw_data computing the contribution right after the sector
\* YoY, before the total YoY exists.
ComputeYoyChangesThenContribution ==
    /\ pc = "sector_yoy"
    /\ RunStage("sector_yoy", "contribution")
    /\ UNCHANGED <<fileExists, colsPresent, hasWorld, figures, tables>>

ComputeYoyChanges ==
    /\ pc = "sector_yoy"
    /\ RunStage("sector_yoy", "total_yoy")
    /\ UNCHANGED <<fileExists, colsPresent, hasWorld, figures, tables>>

TotalYoy ==
    /\ pc = "total_yoy"
    /\ RunStage("total_yoy", "contribution")
    /\ UNCHANGED <<fileExists, colsPresent, hasWorld, figures, tables>>

ComputeContribution ==
    /\ pc = "contribution"
    /\ RunStage("contribution", "smoothing")
    /\ UNCHANGED <<fileExists, colsPresent, hasWorld, figures, tables>>

SmoothSectors ==
    /\ pc = "smoothing"
    /\ RunStage("smoothing", "lmdi")
    /\ UNCHANGED <<fileExists, colsPresent, hasWorld, figures, tables>>

RunKayaLmdi ==
    /\ pc = "lmdi"
    /\ RunStage("lmdi", "figures")
    /\ UNCHANGED <<fileExists, colsPresent, hasWorld, figures, tables>>

\* The figure files of generate_all_figures, in the order it plots them.
FigureNames ==
    << "total_co2_timeseries", "sector_emissions_timeseries",
       "sector_shares_stacked_area", "sector_contribution_yoy_latest20",
       "kaya_lmdi_waterfall" >>

\* The table files of main(): tables_to_export in order, then the smoothed one.
TableNames ==
    << "world_sector_emissions_long", "world_sector_shares",
       "world_yoy_changes", "world_contribution_to_yoy_total",
       "kaya_lmdi_decomposition", "sector_emissions_smoothed" >>

\* generate_all_figures: the next plot_* call; each ends in _save_figure.
SaveFigure ==
    /\ pc = "figures"
    /\ LET k == Cardinality(figures) + 1 IN
       \/ /\ figures' = figures \cup {FigureNames[k]}
          /\ Returns(FigureNames[k],
                     IF k = Len(FigureNames) THEN "export" ELSE "figures")
       \/ /\ \E t \in EnvErrors : Raises(FigureNames[k], t)
          /\ UNCHANGED figures
    /\ UNCHANGED <<fileExists, colsPresent, hasWorld, tables>>

\* The export loop of main() and the smoothed table saved after it.
SaveTable ==
    /\ pc = "export"
    /\ LET k == Cardinality(tables) + 1 IN
       \/ /\ tables' = tables \cup {TableNames[k]}
          /\ Returns(TableNames[k],
                     IF k = Len(TableNames) THEN "summary" ELSE "export")
       \/ /\ \E t \in EnvErrors : Raises(TableNames[k], t)
          /\ UNCHANGED tables
    /\ UNCHANGED <<fileExists, colsPresent, hasWorld, figures>>

\* The summary block: the completion banner, then main() returns.
Summary ==
    /\ pc = "summary"
    /\ logged' = Append(logged, <<"PIPELINE COMPLETED SUCCESSFULLY", "", "">>)
    /\ exitStatus' = 0
    /\ pc' = "done"
    /\ UNCHANGED <<fileExists, colsPresent, hasWorld, started, completed,
                   figures, tables, raised>>

\* Mutant: the except clause logging the error but returning normally.
HandleExceptionNoExit ==
    /\ pc = "except"
    /\ logged' = Append(logged, <<"ERROR", raised[1], raised[2]>>)
    /\ exitStatus' = 0
    /\ pc' = "exited"
    /\ UNCHANGED <<fileExists, colsPresent, hasWorld, started, completed,
                   figures, tables, raised>>

\* except Exception as e: log the type and message, sys.exit(1).
HandleException ==
    /\ pc = "except"
    /\ logged' = Append(logged, <<"ERROR", raised[1], raised[2]>>)
    /\ exitStatus' = 1
    /\ pc' = "exited"
    /\ UNCHANGED <<fileExists, colsPresent, hasWorld, started, completed,
                   figures, tables, raised>>

NextMain ==
    \/ GetConfig
    \/ EnsureDirectoriesExist
    \/ ValidateFileExists
    \/ LoadOwidData
    \/ ExtractSectorLong
    \/ TotalByYear
    \/ ComputeSectorShares
    \/ ComputeYoyChanges
    \/ TotalYoy
    \/ ComputeContribution
    \/ SmoothSectors
    \/ RunKayaLmdi
    \/ SaveFigure
    \/ SaveTable
    \/ Summary
    \/ HandleException

(***************************************************************************)
(* Properties of main()                                                    *)
(***************************************************************************)

Range(seq) == {seq[i] : i \in DOMAIN seq}

IsPrefix(a, b) == Len(a) <= Len(b) /\ \A i \in DOMAIN a : a[i] = b[i]

Terminated == pc \in {"done", "exited"}

AllFigures == Range(FigureNames)
AllTables == Range(TableNames)

\* C1: all-or-nothing outputs. When main() has ended, either all six tables
\* and all five figures are on disk or none of them is.
AllOrNothingOutputs ==
    Terminated =>
        \/ figures = AllFigures /\ tables = AllTables
        \/ figures = {} /\ tables = {}

\* The stages of the try body of main(), in the order the claims name them.
SetupStages == <<"config", "dirs", "validate_file", "load">>
CoreOrder ==
    << "taxonomy", "total_by_year", "shares", "sector_yoy", "total_yoy",
       "contribution", "smoothing", "lmdi" >>
CoreStages == Range(CoreOrder)
OutputStages == AllFigures \cup AllTables
EveryStage == SetupStages \o CoreOrder \o FigureNames \o TableNames

\* C2: fatal error propagation. Once a stage has raised, it is the last stage
\* ever entered; the handler logs the error's type and origin and the run ends
\* with exit status 1. The completion banner and exit status 0 appear only
\* when every stage returned, and no stage is entered twice.
FatalErrorPropagation ==
    /\ raised # NoError =>
          /\ pc \in {"except", "exited"}
          /\ started # <<>> /\ started[Len(started)] = raised[2]
          /\ completed = SubSeq(started, 1, Len(started) - 1)
    /\ pc = "exited" =>
          /\ raised # NoError
          /\ exitStatus = 1
          /\ logged = << <<"ERROR", raised[1], raised[2]>> >>
    /\ (exitStatus = 0 \/ pc = "done"
            \/ <<"PIPELINE COMPLETED SUCCESSFULLY", "", "">> \in Range(logged)) =>
          /\ raised = NoError
          /\ completed = EveryStage
          /\ exitStatus = 0
          /\ logged = << <<"PIPELINE COMPLETED SUCCESSFULLY", "", "">> >>
    /\ \A i, j \in DOMAIN started : started[i] = started[j] => i = j

\* Witness of C2: a run that failed in the middle of the core has exited.
ExitedAfterSmoothingFailed ==
    pc = "exited" /\ raised = <<"TypeError", "smoothing">> /\ exitStatus = 1

BadInput == ~fileExists \/ ~colsPresent \/ ~hasWorld

\* C3: input validation precedes computation. With the file, a required
\* column or the World rows absent, no core stage is ever entered, no figure
\* or table is written, and the run can only end through the error exit.
InputValidationPrecedesComputation ==
    BadInput =>
        /\ Range(started) \cap (CoreStages \cup OutputStages) = {}
        /\ figures = {} /\ tables = {}
        /\ pc \in {"config", "dirs", "validate_file", "load", "except", "exited"}
        /\ pc = "exited" => exitStatus = 1 /\ raised # NoError

\* Witness of C3: a file with all columns but no World row was rejected.
ExitedOnMissingWorld ==
    /\ pc = "exited"
    /\ fileExists /\ colsPresent /\ ~hasWorld
    /\ raised = <<"ValueError", "load">>

\* Position of a stage in a sequence of distinct stages (0 when absent).
IndexOf(seq, s) ==
    IF s \in Range(seq) THEN CHOOSE i \in DOMAIN seq : seq[i] = s ELSE 0

\* What each core stage reads, per the orchestrator's data flow.
Consumes(s) ==
    CASE s = "shares" -> {"taxonomy", "total_by_year"}
      [] s = "sector_yoy" -> {"taxonomy"}
      [] s = "contribution" -> {"sector_yoy", "total_yoy"}
      [] s = "smoothing" -> {"taxonomy"}
      [] OTHER -> {}

IsCore(s) == s \in CoreStages

\* C4: stage ordering. The core stages entered so far are a prefix of the
\* fixed order (so each runs at most once and none re-enters an earlier
\* one), a stage is entered only after the stages it consumes returned, and
\* figures and tables are written only after all core stages returned.
StageOrdering ==
    /\ IsPrefix(SelectSeq(started, IsCore), CoreOrder)
    /\ IsPrefix(SelectSeq(completed, IsCore), CoreOrder)
    /\ \A s \in Range(started) : \A d \in Consumes(s) :
          /\ d \in Range(completed)
          /\ IndexOf(started, d) < IndexOf(started, s)
    /\ (Range(started) \cap OutputStages # {} \/ figures # {} \/ tables # {}) =>
          CoreStages \subseteq Range(completed)

\* Witness of C4: a complete run, every core stage and every output done.
CompleteRun ==
    /\ pc = "done"
    /\ SelectSeq(completed, IsCore) = CoreOrder
    /\ figures = AllFigures /\ tables = AllTables

\* Values of the variables a specification does not use.
(***************************************************************************)
(* Tables: a table is a sequence of records, in row order.                 *)
(***************************************************************************)

\* The canonical sector names in the order sort_values puts them.
SectorOrder ==
    <<"Cement", "Coal", "Flaring", "Gas", "Oil", "Other industry">>

SectorRank(sector) == CHOOSE k \in DOMAIN SectorOrder : SectorOrder[k] = sector

\* Sort keys of a row for sort_values(["year", "sector"]) and for
\* sort_values(["sector", "year"]); years have four digits.
YearSectorKey(row) == row.year * 10 + SectorRank(row.sector)
SectorYearKey(row) == SectorRank(row.sector) * 10000 + row.year

\* rows in ascending order of keys (keys[i] is the key of rows[i]); rows of
\* equal key keep their order.
RECURSIVE SortByKeys(_, _)
SortByKeys(rows, keys) ==
    IF rows = <<>> THEN <<>>
    ELSE LET m == CHOOSE i \in DOMAIN rows :
                     \A j \in DOMAIN rows :
                         keys[i] < keys[j] \/ (keys[i] = keys[j] /\ i <= j)
             drop(q) == [k \in 1..(Len(q) - 1) |->
                            IF k < m THEN q[k] ELSE q[k + 1]]
         IN  <<rows[m]>> \o SortByKeys(drop(rows), drop(keys))

SortYearSector(rows) ==
    SortByKeys(rows, [i \in DOMAIN rows |-> YearSectorKey(rows[i])])

SortSectorYear(rows) ==
    SortByKeys(rows, [i \in DOMAIN rows |-> SectorYearKey(rows[i])])

\* The sum of the values of a sequence at a set of positions.
RECURSIVE SumAt(_, _)
SumAt(values, positions) ==
    IF positions = {} THEN Zero
    ELSE LET j == CHOOSE k \in positions : \A l \in positions : k <= l
         IN  Add(values[j], SumAt(values, positions \ {j}))

(***************************************************************************)
(* smooth_timeseries (modeling.py)                                         *)
(***************************************************************************)

\* Mutant: a rolling mean that needs the whole window (min_periods = window).
RollingMeanFullWindow(values, w) ==
    [i \in DOMAIN values |->
        LET seen == {j \in DOMAIN values :
                        i - (w \div 2) <= j /\ j <= i + (w \div 2)}
            obs == {j \in seen : ~IsNaN(values[j])}
        IN  IF Cardinality(obs) < w THEN NaN
            ELSE Div(SumAt(values, obs), Rat(Cardinality(obs), 1))]

\* series.rolling(window, center=True, min_periods=1).mean() for an odd
\* window: position i sees the positions within window // 2 of it, and the
\* mean is taken over the values there that are not NaN, at least one.
RollingMean(values, w) ==
    [i \in DOMAIN values |->
        LET seen == {j \in DOMAIN values :
                        i - (w \div 2) <= j /\ j <= i + (w \div 2)}
            obs == {j \in seen : ~IsNaN(values[j])}
        IN  IF Cardinality(obs) < 1 THEN NaN
            ELSE Div(SumAt(values, obs), Rat(Cardinality(obs), 1))]

\* smooth_timeseries: <<"return", series>> or <<"raise", exception>>.
smooth_timeseries(values, w) ==
    IF w <= 1 THEN <<"return", values>>
    ELSE IF w % 2 = 0 THEN <<"raise", "ValueError">>
    ELSE <<"return", RollingMean(values, w)>>

\* The longest series and the largest window drawn.
MaxSeriesLen == 7
MaxWindow == 7

SeriesValues == {NaN, Rat(1, 1), Rat(2, 1)}

InitSmooth ==
    /\ series \in UNION {[1..n -> SeriesValues] : n \in 0..MaxSeriesLen}
    /\ window \in -2..MaxWindow
    /\ spc = "call"
    /\ smoothed = <<>>

\* One call of smooth_timeseries(series, window).
CallSmoothTimeseries ==
    /\ spc = "call"
    /\ LET r == smooth_timeseries(series, window)
       IN  IF r[1] = "return"
           THEN spc' = "returned" /\ smoothed' = r[2]
           ELSE spc' = "raised" /\ smoothed' = <<>>
    /\ UNCHANGED <<series, window>>
    /\ UNCHANGED <<pvars, dvars, lvars, tvars>>

(***************************************************************************)
(* load_owid_data's tail, process_raw_data, run_modeling and the export    *)
(* loop of main(), on the World rows of a CSV file.                        *)
(***************************************************************************)

SECTOR_MAPPING ==
    [coal_co2 |-> "Coal", oil_co2 |-> "Oil", gas_co2 |-> "Gas",
     cement_co2 |-> "Cement", flaring_co2 |-> "Flaring",
     other_industry_co2 |-> "Other industry"]

SECTOR_COLUMNS ==
    <<"coal_co2", "oil_co2", "gas_co2", "cement_co2", "flaring_co2",
      "other_industry_co2">>

\* A cell of the CSV text: empty, a numeral (with the number it denotes) or
\* text that is no numeral.
EmptyCell == <<"empty", NaN>>
TextCell == <<"text", NaN>>
NumeralCell(v) == <<"numeral", v>>

\* pd.read_csv on one column: a column holding text that is no numeral is
\* read as strings (empty cells as NaN), any other column as floats.
ReadCsvCell(column, cell) ==
    IF cell = EmptyCell THEN <<"float", NaN>>
    ELSE IF \E i \in DOMAIN column : column[i] = TextCell
         THEN <<"str", cell[2]>>
         ELSE <<"float", cell[2]>>

ReadCsv(rows) ==
    [i \in DOMAIN rows |->
        [rows[i] EXCEPT !.cells =
            [c \in DOMAIN rows[i].cells |->
                ReadCsvCell([k \in DOMAIN rows |-> rows[k].cells[c]],
                            rows[i].cells[c])]]]

\* pd.to_numeric(errors="coerce") on one value: a float is kept, a string
\* becomes the number it spells or NaN.
ToNumeric(value) == value[2]

\* The component-sum check of load_owid_data on the latest year's row: a
\* string among the six values makes the sum, or the subtraction from the
\* total, raise TypeError.
ComponentSumRaises(latest_year_data) ==
    \E c \in DOMAIN latest_year_data.cells :
        latest_year_data.cells[c][1] = "str"

\* Mutant: the extraction without its dropna.
extract_sector_long_keep_nan(df_world) ==
    LET n == Len(df_world)
        df_long == [k \in 1..(Len(SECTOR_COLUMNS) * n) |->
            LET col == SECTOR_COLUMNS[((k - 1) \div n) + 1]
                row == df_world[((k - 1) % n) + 1]
            IN  [year |-> row.year,
                 sector |-> SECTOR_MAPPING[col],
                 emissions_mtco2 |-> ToNumeric(row.cells[col])]]
    IN  SortYearSector(df_long)

\* extract_sector_long: melt, map the column names, coerce, drop NaN, sort.
extract_sector_long(df_world) ==
    LET n == Len(df_world)
        df_long == [k \in 1..(Len(SECTOR_COLUMNS) * n) |->
            LET col == SECTOR_COLUMNS[((k - 1) \div n) + 1]
                row == df_world[((k - 1) % n) + 1]
            IN  [year |-> row.year,
                 sector |-> SECTOR_MAPPING[col],
                 emissions_mtco2 |-> ToNumeric(row.cells[col])]]
        kept == SelectSeq(df_long, LAMBDA r : ~IsNaN(r.emissions_mtco2))
    IN  SortYearSector(kept)

\* df.merge(right, on="year", how="left") for a right table of <<year,
\* value>> pairs: every left row, in order, once per matching right row, or
\* once with NaN when no right row has its year.
RECURSIVE LeftMergeOnYear(_, _)
LeftMergeOnYear(left, right) ==
    IF left = <<>> THEN <<>>
    ELSE LET matches == SelectSeq(right, LAMBDA t : t[1] = Head(left).year)
             joined == IF matches = <<>> THEN << <<Head(left), NaN>> >>
                       ELSE [k \in DOMAIN matches |->
                                <<Head(left), matches[k][2]>>]
         IN  joined \o LeftMergeOnYear(Tail(left), right)

\* compute_sector_shares.
compute_sector_shares(long, totals) ==
    LET frame == LeftMergeOnYear(long,
                  [i \in DOMAIN totals |-> <<totals[i].year, totals[i].co2>>])
        share == SafeDivideArray([i \in DOMAIN frame |-> frame[i][1].emissions_mtco2],
                                 [i \in DOMAIN frame |-> frame[i][2]], NaN)
    IN  SortYearSector([i \in DOMAIN frame |->
            [year |-> frame[i][1].year, sector |-> frame[i][1].sector,
             share_of_total |-> share[i]]])

\* Mutant: the changes taken down the whole sorted table, across sectors.
compute_yoy_changes_ungrouped(long) ==
    LET frame == SortSectorYear(long)
        diff == [i \in DOMAIN frame |->
                    IF i = 1 THEN NaN
                    ELSE Sub(frame[i].emissions_mtco2, frame[i - 1].emissions_mtco2)]
        shift == [i \in DOMAIN frame |->
                    IF i = 1 THEN NaN ELSE frame[i - 1].emissions_mtco2]
        pct == SafeDivideArray(diff, shift, NaN)
    IN  SortYearSector([i \in DOMAIN frame |->
            [year |-> frame[i].year, sector |-> frame[i].sector,
             emissions_mtco2 |-> frame[i].emissions_mtco2,
             yoy_change_mtco2 |-> diff[i], yoy_change_pct |-> pct[i]]])

\* Mutant: the rows without a change (each sector's first) removed.
compute_yoy_changes_dropna(long) ==
    LET frame == SortSectorYear(long)
        first(i) == i = 1 \/ frame[i - 1].sector # frame[i].sector
        diff == [i \in DOMAIN frame |->
                    IF first(i) THEN NaN
                    ELSE Sub(frame[i].emissions_mtco2, frame[i - 1].emissions_mtco2)]
        shift == [i \in DOMAIN frame |->
                    IF first(i) THEN NaN ELSE frame[i - 1].emissions_mtco2]
        pct == SafeDivideArray(diff, shift, NaN)
        rows == [i \in DOMAIN frame |->
            [year |-> frame[i].year, sector |-> frame[i].sector,
             emissions_mtco2 |-> frame[i].emissions_mtco2,
             yoy_change_mtco2 |-> diff[i], yoy_change_pct |-> pct[i]]]
    IN  SortYearSector(SelectSeq(rows, LAMBDA r : ~IsNaN(r.yoy_change_mtco2)))

\* compute_yoy_changes: sorted by sector and year, groupby("sector") diff()
\* and shift(1) look at the row above when it is of the same sector.
compute_yoy_changes(long) ==
    LET frame == SortSectorYear(long)
        first(i) == i = 1 \/ frame[i - 1].sector # frame[i].sector
        diff == [i \in DOMAIN frame |->
                    IF first(i) THEN NaN
                    ELSE Sub(frame[i].emissions_mtco2, frame[i - 1].emissions_mtco2)]
        shift == [i \in DOMAIN frame |->
                    IF first(i) THEN NaN ELSE frame[i - 1].emissions_mtco2]
        pct == SafeDivideArray(diff, shift, NaN)
    IN  SortYearSector([i \in DOMAIN frame |->
            [year |-> frame[i].year, sector |-> frame[i].sector,
             emissions_mtco2 |-> frame[i].emissions_mtco2,
             yoy_change_mtco2 |-> diff[i], yoy_change_pct |-> pct[i]]])

\* owid_world["co2"].diff() beside the years (process_raw_data).
TotalYoyOf(world) ==
    [i \in DOMAIN world |->
        [year |-> world[i].year,
         yoy_change_mtco2 |->
             IF i = 1 THEN NaN ELSE Sub(world[i].co2, world[i - 1].co2)]]

\* compute_contribution_to_total_change.
compute_contribution_to_total_change(yoy, totals) ==
    LET frame == LeftMergeOnYear(yoy,
                  [i \in DOMAIN totals |->
                      <<totals[i].year, totals[i].yoy_change_mtco2>>])
        share == SafeDivideArray([i \in DOMAIN frame |-> frame[i][1].yoy_change_mtco2],
                                 [i \in DOMAIN frame |-> frame[i][2]], NaN)
    IN  SortYearSector([i \in DOMAIN frame |->
            [year |-> frame[i][1].year, sector |-> frame[i][1].sector,
             delta_mtco2 |-> frame[i][1].yoy_change_mtco2,
             delta_total |-> frame[i][2],
             contribution_share |-> share[i]]])

\* The window run_modeling smooths with.
SmoothingWindow == 5

\* run_modeling's smoothing: sorted by sector and year, each sector's
\* emissions are passed to smooth_timeseries on their own.
SmoothedSectors(long) ==
    LET frame == SortSectorYear(long)
        group(i) == SelectSeq(frame, LAMBDA r : r.sector = frame[i].sector)
        place(i) == Cardinality({j \in 1..i : frame[j].sector = frame[i].sector})
        x(i) == [k \in DOMAIN group(i) |-> group(i)[k].emissions_mtco2]
    IN  [i \in DOMAIN frame |->
            [year |-> frame[i].year, sector |-> frame[i].sector,
             emissions_mtco2 |-> frame[i].emissions_mtco2,
             emissions_smoothed |->
                 smooth_timeseries(x(i), SmoothingWindow)[2][place(i)]]]

\* compute_kaya_lmdi(owid_world) with its default periods, as one call.
KayaLmdiOf(world) ==
    LET sorted == SortByYear(world)
        defaults == DefaultPeriods(sorted)
    IN  [k \in DOMAIN defaults |->
            PeriodRow(sorted[IdxMin(sorted, defaults[k][1])],
                      sorted[IdxMin(sorted, defaults[k][2])])]

\* The largest numeral drawn for a sector cell.
MaxCell == 1

\* The years of the CSV rows and the sector columns that are not left empty.
CsvYears == {2000, 2001}
FilledColumns == {"coal_co2", "oil_co2"}

CsvCells == {EmptyCell, TextCell} \cup {NumeralCell(Rat(v, 1)) : v \in 0..MaxCell}

\* The totals drawn for the co2 column.
TotalValues == {NaN, Zero, One}

CsvRow(y) ==
    [year : {y}, co2 : TotalValues, population : {One}, gdp : {One},
     cells : {[c \in DOMAIN SECTOR_MAPPING |->
                  IF c \in FilledColumns THEN g[c] ELSE EmptyCell] :
              g \in [FilledColumns -> CsvCells]}]

\* A CSV of one or two World rows of different years, in either order.
InitProcess ==
    /\ csv \in UNION {{<<r>> : r \in CsvRow(y)} : y \in CsvYears} \cup
               UNION {{<<r1, r2>> : r1 \in CsvRow(y[1]), r2 \in CsvRow(y[2])} :
                         y \in {z \in CsvYears \X CsvYears : z[1] # z[2]}}
    /\ owid_world = <<>>
    /\ tpc = "load"
    /\ traised = "none"
    /\ sector_long = <<>> /\ total_by_year = <<>> /\ sector_shares = <<>>
    /\ sector_yoy = <<>> /\ total_yoy = <<>> /\ contribution = <<>>
    /\ sector_smoothed = <<>> /\ lmdi_decomposition = <<>> /\ exported = <<>>

\* load_owid_data from read_csv on: the rows are read, sorted by year and
\* the component sum of the latest year is logged.
ProcLoad ==
    /\ tpc = "load"
    /\ LET df_world == SortByYear(ReadCsv(csv))
       IN  IF ComponentSumRaises(df_world[Len(df_world)])
           THEN /\ tpc' = "failed"
                /\ traised' = "TypeError"
                /\ UNCHANGED owid_world
           ELSE /\ tpc' = "extract"
                /\ owid_world' = df_world
                /\ UNCHANGED traised
    /\ UNCHANGED <<csv, sector_long, total_by_year, sector_shares, sector_yoy,
                   total_yoy, contribution, sector_smoothed,
                   lmdi_decomposition, exported>>
    /\ UNCHANGED <<pvars, dvars, lvars, svars>>

\* process_raw_data, line 153.
ProcExtractSectorLong ==
    /\ tpc = "extract"
    /\ sector_long' = extract_sector_long(owid_world)
    /\ tpc' = "total_by_year"
    /\ UNCHANGED <<csv, owid_world, traised, total_by_year, sector_shares,
                   sector_yoy, total_yoy, contribution, sector_smoothed,
                   lmdi_decomposition, exported>>
    /\ UNCHANGED <<pvars, dvars, lvars, svars>>

\* process_raw_data, lines 158-160.
ProcTotalByYear ==
    /\ tpc = "total_by_year"
    /\ total_by_year' = [i \in DOMAIN owid_world |->
                            [year |-> owid_world[i].year,
                             co2 |-> owid_world[i].co2]]
    /\ tpc' = "shares"
    /\ UNCHANGED <<csv, owid_world, traised, sector_long, sector_shares,
                   sector_yoy, total_yoy, contribution, sector_smoothed,
                   lmdi_decomposition, exported>>
    /\ UNCHANGED <<pvars, dvars, lvars, svars>>

\* process_raw_data, lines 165-166.
ProcSectorShares ==
    /\ tpc = "shares"
    /\ sector_shares' = compute_sector_shares(sector_long, total_by_year)
    /\ tpc' = "yoy"
    /\ UNCHANGED <<csv, owid_world, traised, sector_long, total_by_year,
                   sector_yoy, total_yoy, contribution, sector_smoothed,
                   lmdi_decomposition, exported>>
    /\ UNCHANGED <<pvars, dvars, lvars, svars>>

\* process_raw_data, lines 171-172.
ProcYoyChanges ==
    /\ tpc = "yoy"
    /\ sector_yoy' = compute_yoy_changes(sector_long)
    /\ tpc' = "total_yoy"
    /\ UNCHANGED <<csv, owid_world, traised, sector_long, total_by_year,
                   sector_shares, total_yoy, contribution, sector_smoothed,
                   lmdi_decomposition, exported>>
    /\ UNCHANGED <<pvars, dvars, lvars, svars>>

\* process_raw_data, lines 175-178.
ProcTotalYoy ==
    /\ tpc = "total_yoy"
    /\ total_yoy' = TotalYoyOf(owid_world)
    /\ tpc' = "contribution"
    /\ UNCHANGED <<csv, owid_world, traised, sector_long, total_by_year,
                   sector_shares, sector_yoy, contribution, sector_smoothed,
                   lmdi_decomposition, exported>>
    /\ UNCHANGED <<pvars, dvars, lvars, svars>>

\* process_raw_data, lines 183-194.
ProcContribution ==
    /\ tpc = "contribution"
    /\ contribution' = compute_contribution_to_total_change(sector_yoy, total_yoy)
    /\ tpc' = "smooth"
    /\ UNCHANGED <<csv, owid_world, traised, sector_long, total_by_year,
                   sector_shares, sector_yoy, total_yoy, sector_smoothed,
                   lmdi_decomposition, exported>>
    /\ UNCHANGED <<pvars, dvars, lvars, svars>>

\* Mutant: the smoothing stage without its copy, the smoothed column written
\* into the long table itself.
ProcSmoothSectorsInPlace ==
    /\ tpc = "smooth"
    /\ sector_smoothed' = SmoothedSectors(sector_long)
    /\ sector_long' = sector_smoothed'
    /\ tpc' = "lmdi"
    /\ UNCHANGED <<csv, owid_world, traised, total_by_year,
                   sector_shares, sector_yoy, total_yoy, contribution,
                   lmdi_decomposition, exported>>
    /\ UNCHANGED <<pvars, dvars, lvars, svars>>

\* run_modeling, lines 265-273.
ProcSmoothSectors ==
    /\ tpc = "smooth"
    /\ sector_smoothed' = SmoothedSectors(sector_long)
    /\ tpc' = "lmdi"
    /\ UNCHANGED <<csv, owid_world, traised, sector_long, total_by_year,
                   sector_shares, sector_yoy, total_yoy, contribution,
                   lmdi_decomposition, exported>>
    /\ UNCHANGED <<pvars, dvars, lvars, svars>>

\* run_modeling, lines 278-285.
ProcKayaLmdi ==
    /\ tpc = "lmdi"
    /\ lmdi_decomposition' = KayaLmdiOf(owid_world)
    /\ tpc' = "figures"
    /\ UNCHANGED <<csv, owid_world, traised, sector_long, total_by_year,
                   sector_shares, sector_yoy, total_yoy, contribution,
                   sector_smoothed, exported>>
    /\ UNCHANGED <<pvars, dvars, lvars, svars>>

\* main(), lines 122-129: the figures are drawn, or writing one fails.
ProcFigures ==
    /\ tpc = "figures"
    /\ \/ tpc' = "export" /\ UNCHANGED traised
       \/ tpc' = "failed" /\ traised' = "OSError"
    /\ UNCHANGED <<csv, owid_world, sector_long, total_by_year,
                   sector_shares, sector_yoy, total_yoy, contribution,
                   sector_smoothed, lmdi_decomposition, exported>>
    /\ UNCHANGED <<pvars, dvars, lvars, svars>>

\* main(), lines 136-152: the six tables are written under their file names.
ProcExport ==
    /\ tpc = "export"
    /\ exported' =
          << <<"world_sector_emissions_long.csv", sector_long>>,
             <<"world_sector_shares.csv", sector_shares>>,
             <<"world_yoy_changes.csv", sector_yoy>>,
             <<"world_contribution_to_yoy_total.csv", contribution>>,
             <<"kaya_lmdi_decomposition.csv", lmdi_decomposition>>,
             <<"sector_emissions_smoothed.csv", sector_smoothed>> >>
    /\ tpc' = "done"
    /\ UNCHANGED <<csv, owid_world, traised, sector_long, total_by_year,
                   sector_shares, sector_yoy, total_yoy, contribution,
                   sector_smoothed, lmdi_decomposition>>
    /\ UNCHANGED <<pvars, dvars, lvars, svars>>

NextProcess ==
    \/ ProcLoad
    \/ ProcExtractSectorLong
    \/ ProcTotalByYear
    \/ ProcSectorShares
    \/ ProcYoyChanges
    \/ ProcTotalYoy
    \/ ProcContribution
    \/ ProcSmoothSectors
    \/ ProcKayaLmdi
    \/ ProcFigures
    \/ ProcExport

\* Inputs of the table-level specification: a long table over three years
\* (one calendar gap) and two sectors, any record absent, and a World table
\* in which any of the years may be absent.
TableYears == <<2000, 2001, 2003>>
TableSectors == <<"Coal", "Gas">>

EmissionValues == {Rat(v, 1) : v \in 0..MaxCell}

NoCells == [c \in DOMAIN SECTOR_MAPPING |-> <<"float", NaN>>]

\* The long table holding the record of slot k (years outermost) when g[k]
\* is a number, in (year, sector) order as extract_sector_long leaves it.
LongTableOf(g) ==
    LET slot == [k \in 1..(Len(TableYears) * Len(TableSectors)) |->
            [year |-> TableYears[((k - 1) \div Len(TableSectors)) + 1],
             sector |-> TableSectors[((k - 1) % Len(TableSectors)) + 1],
             emissions_mtco2 |-> g[k]]]
    IN  SelectSeq(slot, LAMBDA r : ~IsNaN(r.emissions_mtco2))

\* The totals drawn for the co2 column of the World table.
WorldTotals == {One, Rat(2, 1)}

\* The World table holding the row of year k when h[k] is a number.
WorldTableOf(h) ==
    LET slot == [k \in DOMAIN TableYears |->
            [year |-> TableYears[k], co2 |-> h[k], population |-> One,
             gdp |-> One, cells |-> NoCells]]
    IN  SelectSeq(slot, LAMBDA r : ~IsNaN(r.co2))

InitTables ==
    /\ sector_long \in
          {LongTableOf(g) :
              g \in [1..(Len(TableYears) * Len(TableSectors)) ->
                        {NaN} \cup EmissionValues]}
    /\ owid_world \in
          {WorldTableOf(h) : h \in [DOMAIN TableYears -> {NaN} \cup WorldTotals]}
    /\ csv = <<>>
    /\ tpc = "total_by_year"
    /\ traised = "none"
    /\ total_by_year = <<>> /\ sector_shares = <<>>
    /\ sector_yoy = <<>> /\ total_yoy = <<>> /\ contribution = <<>>
    /\ sector_smoothed = <<>> /\ lmdi_decomposition = <<>> /\ exported = <<>>

NextTables ==
    \/ ProcTotalByYear
    \/ ProcSectorShares
    \/ ProcYoyChanges
    \/ ProcTotalYoy
    \/ ProcContribution

\* Inputs of the smoothing specification: either one call of
\* smooth_timeseries on a series and a window, or the smoothing stage of
\* run_modeling on a long table.
SmoothedYears == <<2000, 2001, 2002, 2003>>

\* The long table holding the record of slot k (years outermost) when g[k]
\* is a number.
SmoothedTableOf(g) ==
    LET slot == [k \in 1..(Len(SmoothedYears) * Len(TableSectors)) |->
            [year |-> SmoothedYears[((k - 1) \div Len(TableSectors)) + 1],
             sector |-> TableSectors[((k - 1) % Len(TableSectors)) + 1],
             emissions_mtco2 |-> g[k]]]
    IN  SelectSeq(slot, LAMBDA r : ~IsNaN(r.emissions_mtco2))

InitSmoothedSectors ==
    /\ sector_long \in
          {SmoothedTableOf(g) :
              g \in [1..(Len(SmoothedYears) * Len(TableSectors)) ->
                        {NaN} \cup EmissionValues]}
    /\ tpc = "smooth"
    /\ csv = <<>> /\ owid_world = <<>> /\ traised = "none"
    /\ total_by_year = <<>> /\ sector_shares = <<>>
    /\ sector_yoy = <<>> /\ total_yoy = <<>> /\ contribution = <<>>
    /\ sector_smoothed = <<>> /\ lmdi_decomposition = <<>> /\ exported = <<>>

NextSmooth ==
    \/ CallSmoothTimeseries
    \/ ProcSmoothSectors

(***************************************************************************)
(* Properties of the processing functions                                  *)
(***************************************************************************)

\* The rows of a table as a set.
RowsOf(table) == {table[i] : i \in DOMAIN table}

\* The records of the long table of the same sector as r and of an earlier
\* year, and the latest of them.
EarlierRecords(r) ==
    {q \in RowsOf(sector_long) : q.sector = r.sector /\ q.year < r.year}

PrecedingRecord(r) ==
    CHOOSE q \in EarlierRecords(r) : \A p \in EarlierRecords(r) : p.year <= q.year

\* C11: YoY boundary. The output of compute_yoy_changes has one row per
\* record of the long table; a sector's earliest record has a missing
\* yoy_change_mtco2, and every later one has its emissions minus those of
\* the sector's own preceding record, whatever the gap in years.
YoyBoundary ==
    /\ tpc \in {"total_yoy", "contribution", "smooth"} =>
          /\ Len(sector_yoy) = Len(sector_long)
          /\ {<<r.year, r.sector, r.emissions_mtco2>> : r \in RowsOf(sector_yoy)}
                = {<<r.year, r.sector, r.emissions_mtco2>> :
                      r \in RowsOf(sector_long)}
    /\ \A r \in RowsOf(sector_yoy) :
          IF EarlierRecords(r) = {}
          THEN IsNaN(r.yoy_change_mtco2)
          ELSE r.yoy_change_mtco2 =
                  Sub(r.emissions_mtco2, PrecedingRecord(r).emissions_mtco2)

\* Witness of C11: Coal recorded in 2000 and 2003 only and Gas in 2001 only:
\* Coal's change in 2003 is taken from 2000, Gas has none in 2001.
CoalChangeAcrossGap ==
    /\ sector_long =
          << [year |-> 2000, sector |-> "Coal", emissions_mtco2 |-> Zero],
             [year |-> 2001, sector |-> "Gas", emissions_mtco2 |-> One],
             [year |-> 2003, sector |-> "Coal", emissions_mtco2 |-> One] >>
    /\ Len(sector_yoy) = 3
    /\ IsNaN(sector_yoy[1].yoy_change_mtco2)
    /\ IsNaN(sector_yoy[2].yoy_change_mtco2)
    /\ sector_yoy[3].sector = "Coal" /\ sector_yoy[3].yoy_change_mtco2 = One

\* The World row of a year, and the row before it in year order.
WorldRow(y) == CHOOSE w \in RowsOf(owid_world) : w.year = y

EarlierWorldRows(y) == {w \in RowsOf(owid_world) : w.year < y}

PrecedingWorldRow(y) ==
    CHOOSE w \in EarlierWorldRows(y) : \A v \in EarlierWorldRows(y) : v.year <= w.year

\* C12: zero-denominator sentinel. A share whose year has a total of 0, a
\* percentage change whose preceding value is 0 and a contribution share
\* whose year has a total change of exactly 0 are all the missing value; no
\* ratio in any table is an infinity; no step from the extraction to the
\* smoothing raises; and the exported tables are these tables.
ZeroDenominatorSentinel ==
    /\ \A r \in RowsOf(sector_shares) :
          /\ ~IsInf(r.share_of_total)
          /\ WorldRow(r.year).co2 = Zero => IsNaN(r.share_of_total)
    /\ \A r \in RowsOf(sector_yoy) :
          /\ ~IsInf(r.yoy_change_pct)
          /\ (EarlierRecords(r) # {}
              /\ PrecedingRecord(r).emissions_mtco2 = Zero) =>
                 IsNaN(r.yoy_change_pct)
    /\ \A r \in RowsOf(contribution) :
          /\ ~IsInf(r.contribution_share)
          /\ (EarlierWorldRows(r.year) # {}
              /\ Sub(WorldRow(r.year).co2, PrecedingWorldRow(r.year).co2) = Zero) =>
                 IsNaN(r.contribution_share)
    /\ tpc \in {"total_by_year", "shares", "yoy", "total_yoy", "contribution",
                "smooth", "lmdi", "figures", "export", "done"} =>
          traised = "none"
    /\ tpc = "done" =>
          /\ exported[2][2] = sector_shares
          /\ exported[3][2] = sector_yoy
          /\ exported[4][2] = contribution

\* Witness of C12: a finished run over two years with the same total, in
\* which Coal went from 0 to 1: its contribution share is missing, and so is
\* its percentage change.
FlatYearContribution ==
    /\ tpc = "done"
    /\ \E i \in DOMAIN contribution :
          /\ contribution[i].sector = "Coal"
          /\ contribution[i].delta_mtco2 = One
          /\ contribution[i].delta_total = Zero
          /\ IsNaN(contribution[i].contribution_share)
          /\ exported[4][2][i] = contribution[i]
    /\ \E r \in RowsOf(sector_yoy) :
          r.yoy_change_mtco2 = One /\ IsNaN(r.yoy_change_pct)

\* The (year, sector, value) triples of the numerals in the sector columns of
\* the CSV.
NumeralTriples ==
    {<<csv[i].year, SECTOR_MAPPING[c], csv[i].cells[c][2]>> :
        <<i, c>> \in {p \in (DOMAIN csv) \X (DOMAIN SECTOR_MAPPING) :
                         csv[p[1]].cells[p[2]][1] = "numeral"}}

\* C13: sector long-form completeness. Once extracted, the long table holds
\* exactly one record per sector cell of the input that is a numeral, with
\* the cell's year, the canonical name of its column and its value; an
\* empty cell, or one holding other text, has no record.
SectorLongCompleteness ==
    tpc \notin {"load", "extract", "failed"} =>
        /\ {<<r.year, r.sector, r.emissions_mtco2>> : r \in RowsOf(sector_long)}
              = NumeralTriples
        /\ Len(sector_long) = Cardinality(NumeralTriples)
        /\ \A r \in RowsOf(sector_long) : ~IsNaN(r.emissions_mtco2)

\* Witness of C13: Coal is 1 in 2000 and empty in 2001, Oil is 0 in 2001
\* and empty in 2000: the long table holds those two records and no other.
TwoRecordsOfFourCells ==
    /\ tpc = "total_by_year"
    /\ Len(csv) = 2
    /\ \E i, j \in DOMAIN csv :
          /\ csv[i].year = 2000 /\ csv[j].year = 2001
          /\ csv[i].cells.coal_co2 = NumeralCell(One)
          /\ csv[j].cells.coal_co2 = EmptyCell
          /\ csv[i].cells.oil_co2 = EmptyCell
          /\ csv[j].cells.oil_co2 = NumeralCell(Zero)
    /\ sector_long =
          << [year |-> 2000, sector |-> "Coal", emissions_mtco2 |-> One],
             [year |-> 2001, sector |-> "Oil", emissions_mtco2 |-> Zero] >>

\* Some sector cell of the CSV holds text that is not a numeral.
HasTextCell ==
    \E i \in DOMAIN csv : \E c \in DOMAIN SECTOR_MAPPING :
        csv[i].cells[c] = TextCell

\* C14: non-numeric sector values are fatal. A run whose input holds a
\* sector value that is present but not a numeral never gets past the
\* extraction of the long table and exports nothing.
NonNumericSectorValueIsFatal ==
    HasTextCell =>
        /\ tpc \in {"load", "extract", "failed"}
        /\ exported = <<>>

\* The years that have an entry in the totals-by-year table.
TotalYears == {total_by_year[i].year : i \in DOMAIN total_by_year}

\* C15: share join miss-policy. When compute_sector_shares has returned, no
\* row of its result is for a year that has no entry in the totals-by-year
\* table.
NoShareRowWithoutTotal ==
    tpc \in {"yoy", "total_yoy", "contribution", "smooth", "lmdi", "figures",
             "export", "done"} =>
        \A r \in RowsOf(sector_shares) : r.year \in TotalYears

\* The tolerance of the bound on a year's shares.
ShareTolerance == Rat(1, 1000000)

\* The positions of the share rows of year y, and the sum of their shares.
ShareRowsOf(y) == {i \in DOMAIN sector_shares : sector_shares[i].year = y}

SumOfShares(y) ==
    SumAt([i \in DOMAIN sector_shares |-> sector_shares[i].share_of_total],
          ShareRowsOf(y))

\* C16: share bounds. Once the shares are computed, in every year whose
\* total is a number greater than 0 no share is below 0 and the shares of
\* the year's sectors sum to at most 1 plus the tolerance.
ShareBounds ==
    tpc \in {"yoy", "total_yoy", "contribution", "smooth", "lmdi", "figures",
             "export", "done"} =>
        \A t \in RowsOf(total_by_year) :
            Gt(t.co2, Zero) =>
                /\ \A i \in ShareRowsOf(t.year) :
                      ~Lt(sector_shares[i].share_of_total, Zero)
                /\ ~Gt(SumOfShares(t.year), Add(One, ShareTolerance))

\* The positions the window of smooth_timeseries is said to cover at
\* position i of a series of n values: w // 2 before to w // 2 after, cut
\* at the ends of the series.
CoveredPositions(i, n, w) ==
    {j \in 1..n : i - (w \div 2) <= j /\ j <= i + (w \div 2)}

AllDefined(values) == \A i \in DOMAIN values : IsFinite(values[i])

\* The records of the long table of the same sector as record i, the rank
\* of record j among them by year, and the records whose rank is within
\* half the window of record i's.
SameSector(i) ==
    {j \in DOMAIN sector_long : sector_long[j].sector = sector_long[i].sector}

RankInSector(j) ==
    Cardinality({k \in SameSector(j) :
                    sector_long[k].year <= sector_long[j].year})

SectorWindow(i) ==
    {j \in SameSector(i) :
        /\ RankInSector(i) - (SmoothingWindow \div 2) <= RankInSector(j)
        /\ RankInSector(j) <= RankInSector(i) + (SmoothingWindow \div 2)}

\* C17: smoothing with a shrinking window. A call with an odd window above
\* 1 on a series of defined values returns as many values, each of them
\* defined and the mean of the input values at the covered positions; and
\* the smoothing stage gives every record of the long table one row whose
\* smoothed value is the mean of the records of its own sector that lie
\* within the window.
SmoothingShrinkingWindow ==
    /\ (spc = "returned" /\ window > 1 /\ AllDefined(series)) =>
          /\ Len(smoothed) = Len(series)
          /\ \A i \in DOMAIN series :
                /\ IsFinite(smoothed[i])
                /\ Mul(smoothed[i],
                       Rat(Cardinality(CoveredPositions(i, Len(series), window)), 1))
                      = SumAt(series, CoveredPositions(i, Len(series), window))
    /\ tpc = "lmdi" =>
          /\ Len(sector_smoothed) = Len(sector_long)
          /\ \A i \in DOMAIN sector_long :
                \E r \in RowsOf(sector_smoothed) :
                    /\ r.year = sector_long[i].year
                    /\ r.sector = sector_long[i].sector
                    /\ r.emissions_mtco2 = sector_long[i].emissions_mtco2
                    /\ IsFinite(r.emissions_smoothed)
                    /\ Mul(r.emissions_smoothed,
                           Rat(Cardinality(SectorWindow(i)), 1))
                          = SumAt([j \in DOMAIN sector_long |->
                                      sector_long[j].emissions_mtco2],
                                  SectorWindow(i))

\* Witness of C17: seven defined points smoothed with a window of 5; the
\* first value is the mean of three points, the middle one of five, and
\* the last of three.
SevenPointsWindowFive ==
    /\ spc = "returned"
    /\ window = 5
    /\ series = <<Rat(1, 1), Rat(1, 1), Rat(1, 1), Rat(2, 1), Rat(2, 1),
                  Rat(2, 1), Rat(2, 1)>>
    /\ smoothed = <<Rat(1, 1), Rat(5, 4), Rat(7, 5), Rat(8, 5), Rat(9, 5),
                    Rat(2, 1), Rat(2, 1)>>

\* C18: smoothing window validation. A call of smooth_timeseries returns a
\* series only for a positive odd window, the input values themselves when
\* the window is 1; an even window above 1 raises.
WindowValidation ==
    /\ spc = "returned" => (window > 0 /\ window % 2 = 1)
    /\ (spc = "returned" /\ window = 1) => smoothed = series
    /\ (spc \in {"returned", "raised"} /\ window > 1 /\ window % 2 = 0) =>
          spc = "raised"

\* The stages of a run in order, and whether the run has passed stage s.
Stages ==
    <<"load", "extract", "total_by_year", "shares", "yoy", "total_yoy",
      "contribution", "smooth", "lmdi", "figures", "export", "done">>

StageIndex(s) == CHOOSE i \in DOMAIN Stages : Stages[i] = s

Passed(s) == tpc \in RowsOf(Stages) /\ StageIndex(tpc) > StageIndex(s)

\* One step leaves every table that exists as it is: the CSV rows always,
\* and each table from the stage that produced it onwards; and the step
\* that exports writes the tables as they are.
TablesKept ==
    /\ csv' = csv
    /\ Passed("load") => owid_world' = owid_world
    /\ Passed("extract") => sector_long' = sector_long
    /\ Passed("total_by_year") => total_by_year' = total_by_year
    /\ Passed("shares") => sector_shares' = sector_shares
    /\ Passed("yoy") => sector_yoy' = sector_yoy
    /\ Passed("total_yoy") => total_yoy' = total_yoy
    /\ Passed("contribution") => contribution' = contribution
    /\ Passed("smooth") => sector_smoothed' = sector_smoothed
    /\ Passed("lmdi") => lmdi_decomposition' = lmdi_decomposition
    /\ tpc' = "done" =>
          [k \in DOMAIN exported' |-> exported'[k][2]] =
             <<sector_long, sector_shares, sector_yoy, contribution,
               lmdi_decomposition, sector_smoothed>>

\* C20: inputs are never mutated. No stage of a run changes a table it was
\* handed: a table produced by one stage is the same at every later stage
\* and at export.
InputsNeverMutated == [][TablesKept]_vars

\* Witness of C20: a finished run over two years in which every stage read
\* the long table, and the table exported is the one extraction returned.
ExportedLongTableAsExtracted ==
    /\ tpc = "done"
    /\ Len(owid_world) = 2
    /\ Len(sector_long) = 4
    /\ Len(sector_smoothed) = 4
    /\ sector_long = extract_sector_long(owid_world)
    /\ exported[1][2] = sector_long

\* The (year, sector) pairs of a table, and a table holding each pair of
\* the long table in exactly one row and no other pair.
KeysOf(table) == {<<r.year, r.sector>> : r \in RowsOf(table)}

SameKeysAsLong(table) ==
    /\ KeysOf(table) = KeysOf(sector_long)
    /\ Len(table) = Cardinality(KeysOf(sector_long))

\* C23: key-set preservation. The years of the input being unique, the
\* shares, the year-on-year changes, the contributions and the smoothed
\* series each hold exactly one row per (year, sector) pair of the long
\* table and no other pair.
KeySetPreservation ==
    /\ Passed("extract") => Len(sector_long) = Cardinality(KeysOf(sector_long))
    /\ Passed("shares") => SameKeysAsLong(sector_shares)
    /\ Passed("yoy") => SameKeysAsLong(sector_yoy)
    /\ Passed("contribution") => SameKeysAsLong(contribution)
    /\ Passed("smooth") => SameKeysAsLong(sector_smoothed)

\* Witness of C23: a finished run over two years with Coal in both and Oil
\* in 2001 only: the three pairs are in all four tables, the rows of 2000
\* and of Oil with no change.
ThreePairsInEveryTable ==
    /\ tpc = "done"
    /\ KeysOf(sector_long) =
          {<<2000, "Coal">>, <<2001, "Coal">>, <<2001, "Oil">>}
    /\ KeysOf(sector_shares) = KeysOf(sector_long)
    /\ KeysOf(contribution) = KeysOf(sector_long)
    /\ KeysOf(sector_smoothed) = KeysOf(sector_long)
    /\ {<<r.year, r.sector>> :
           r \in {q \in RowsOf(sector_yoy) : IsNaN(q.yoy_change_mtco2)}}
          = {<<2000, "Coal">>, <<2001, "Oil">>}

\* The contribution rows whose contribution_share is a number.
DefinedContributions ==
    {r \in RowsOf(contribution) : IsFinite(r.contribution_share)}

\* What the two deltas of a contribution record with a defined share are:
\* delta_mtco2 is the sector's emissions minus those of its preceding
\* record, delta_total the total of the year minus that of the preceding
\* input row.
ContributionDeltas ==
    tpc = "smooth" =>
        \A r \in DefinedContributions :
            /\ EarlierRecords(r) # {} /\ EarlierWorldRows(r.year) # {}
            /\ \E q \in RowsOf(sector_long) :
                  /\ q.year = r.year /\ q.sector = r.sector
                  /\ r.delta_mtco2 =
                        Sub(q.emissions_mtco2, PrecedingRecord(r).emissions_mtco2)
            /\ r.delta_total =
                  Sub(WorldRow(r.year).co2, PrecedingWorldRow(r.year).co2)

\* C25: contribution spans agree. In every contribution record with a
\* defined contribution_share, the sector delta and the total delta are
\* differences over the same pair of years: the year of the sector's
\* preceding record is the year of the preceding input row.
ContributionSpansAgree ==
    /\ ContributionDeltas
    /\ tpc = "smooth" =>
          \A r \in DefinedContributions :
              PrecedingRecord(r).year = PrecedingWorldRow(r.year).year

IdleMain ==
    /\ pc = "idle"
    /\ fileExists = FALSE /\ colsPresent = FALSE /\ hasWorld = FALSE
    /\ started = <<>> /\ completed = <<>>
    /\ figures = {} /\ tables = {}
    /\ raised = NoError /\ logged = <<>> /\ exitStatus = -1

IdleDivide ==
    /\ numerator = <<>> /\ denominator = <<>> /\ default = NaN
    /\ arrayResult = <<>> /\ scalarIndex = 0 /\ scalarResult = NaN

IdleLmdi ==
    /\ world_df = <<>> /\ periodsArg = [given |-> FALSE, list |-> <<>>]
    /\ lpc = "idle" /\ df = <<>> /\ periods = <<>>
    /\ results = <<>> /\ weights = <<>> /\ adjustments = <<>>

IdleProcess ==
    /\ csv = <<>> /\ owid_world = <<>> /\ tpc = "idle" /\ traised = "none"
    /\ sector_long = <<>> /\ total_by_year = <<>> /\ sector_shares = <<>>
    /\ sector_yoy = <<>> /\ total_yoy = <<>> /\ contribution = <<>>
    /\ sector_smoothed = <<>> /\ lmdi_decomposition = <<>> /\ exported = <<>>

IdleSmooth ==
    /\ series = <<>> /\ window = 0 /\ spc = "idle" /\ smoothed = <<>>

IdleOthers == IdleProcess /\ IdleSmooth

Init == InitMain /\ IdleDivide /\ IdleLmdi /\ IdleOthers

Next == NextMain /\ UNCHANGED <<dvars, lvars, tvars, svars>>

InitDivideSpec == InitDivide /\ IdleMain /\ IdleLmdi /\ IdleOthers

SpecDivide == InitDivideSpec /\ [][NextDivide]_vars

InitLmdiValuesSpec == InitLmdiValues /\ IdleMain /\ IdleDivide /\ IdleOthers

SpecLmdi == InitLmdiValuesSpec /\ [][NextLmdi]_vars

InitLmdiYearsSpec == InitLmdiYears /\ IdleMain /\ IdleDivide /\ IdleOthers

SpecLmdiYears == InitLmdiYearsSpec /\ [][NextLmdi]_vars

InitProcessSpec ==
    InitProcess /\ IdleMain /\ IdleDivide /\ IdleLmdi /\ IdleSmooth

SpecProcess == InitProcessSpec /\ [][NextProcess]_vars

InitTablesSpec ==
    InitTables /\ IdleMain /\ IdleDivide /\ IdleLmdi /\ IdleSmooth

SpecTables == InitTablesSpec /\ [][NextTables]_vars

InitSmoothSpec ==
    \/ InitSmooth /\ IdleMain /\ IdleDivide /\ IdleLmdi /\ IdleProcess
    \/ InitSmoothedSectors /\ IdleMain /\ IdleDivide /\ IdleLmdi /\ IdleSmooth

SpecSmooth == InitSmoothSpec /\ [][NextSmooth]_vars

Spec == Init /\ [][Next]_vars

====
